---- MODULE Spec2Model ----
(***************************************************************************)
(* A model of channel.c: one bounded channel (a FIFO buffer, one mutex,    *)
(* two condition variables and a closed flag) used by several threads.     *)
(*                                                                         *)
(* Granularity.  pthread_mutex_lock is one step; everything a function     *)
(* does while it holds the mutex, up to the point where it gives the mutex *)
(* up again (pthread_mutex_unlock + return, or pthread_cond_wait), is one  *)
(* step: no other thread can observe or change the channel in between.     *)
(* pthread_cond_wait is three steps: enter the wait (mutex released), be   *)
(* woken (signal, broadcast or spurious), re-acquire the mutex.            *)
(* channel_destroy takes no mutex and is one step.  channel_select has its *)
(* own scenario, with a channel per entry of its list.                     *)
(***************************************************************************)
EXTENDS Integers, Sequences, FiniteSets

\* ---------------------------------------------------------------- bounds
NumThreads == 3
MaxCalls == 4
MaxCapacity == 2
MaxSpurious == 1
NumItems == 4
NumEntries == 3

\* ------------------------------------------------------------- constants
NoThread == 0
NoItem == 0

Threads == 1 .. NumThreads

VARIABLES
    capacity,   \* buffer_capacity(channel->buffer), fixed by channel_create
    buffer,     \* channel->buffer: the items it holds, oldest first
    closed,     \* channel->closed
    lock,       \* channel->lock: the thread that holds it, or NoThread
    not_full,   \* channel->not_full: the threads waiting on it
    not_empty,  \* channel->not_empty: the threads waiting on it
    pc,         \* per thread: "idle", "cs" (holds the mutex), "wait", "woken"
    op,         \* per thread: the function it is in (or was last in)
    arg,        \* per thread: the data argument of its send
    out,        \* per thread: the output slot *data of its receive
    ret,        \* per thread: the status its last call returned ("NONE" while in a call)
    producers,  \* producer/consumer scenario: the threads that send (the rest receive)
    sends,      \* producer/consumer scenario: sends started so far
    nwaits,     \* per thread: pthread_cond_wait calls in the call it is in (capped at 2)
    enq,        \* history: items of sends that returned SUCCESS, in order
    deq,        \* history: items that receives returned with SUCCESS, in order
    bufErr,     \* history: a buffer operation was called outside its precondition
    nclose,     \* history: channel_close calls that returned SUCCESS
    deqAtClose, \* history: Len(deq) when channel_close returned SUCCESS (0 before)
    started,    \* calls started so far, by all threads
    spurious,   \* spurious wakeups so far
    freed,      \* what channel_destroy has released so far
    channel_list,   \* select scenario: the select_t array of the channel_select call
    listed,         \* select scenario: the channels the array's entries point to
    selected_index, \* select scenario: *selected_index of the channel_select call
    select_ret      \* select scenario: what channel_select returned ("NONE" before)

vars == << capacity, buffer, closed, lock, not_full, not_empty, pc, op, arg, out,
           ret, producers, sends, nwaits, enq, deq, bufErr, nclose, deqAtClose,
           started, spurious, freed, channel_list, listed, selected_index,
           select_ret >>

selv == << channel_list, listed, selected_index, select_ret >>

chan == << capacity, buffer, closed, not_full, not_empty >>
hist == << enq, deq, bufErr, nclose, deqAtClose >>

\* ------------------------------------------------- the buffer collaborator
\* buffer.c is not among the sources; this is its contract: a FIFO store of
\* fixed capacity.  A call outside a precondition leaves the buffer alone
\* and is recorded in bufErr by the caller.
buffer_current_size(b) == Len(b)

\* add(buffer, item): precondition current_size < capacity
buffer_add(b, cap, d) == IF Len(b) < cap THEN Append(b, d) ELSE b

buffer_add_ok(b, cap) == Len(b) < cap

\* remove(buffer, &out): precondition current_size > 0; dequeues oldest first
buffer_remove(b, old) ==
    IF Len(b) > 0 THEN [buf |-> Tail(b), item |-> Head(b)]
                  ELSE [buf |-> b, item |-> old]

buffer_remove_ok(b) == Len(b) > 0

\* ------------------------------------------------------ pthread primitives
\* pthread_cond_signal: the sets of waiters it may wake (one, if any waits)
cond_signal(cv) == IF cv = {} THEN {{}} ELSE {{w} : w \in cv}

\* pthread_cond_broadcast: wakes every waiter
cond_broadcast(cv) == cv

\* the program counters after thread t moved to p and the threads in W were woken
Moved(t, p, W) ==
    [u \in DOMAIN pc |-> IF u = t THEN p ELSE IF u \in W THEN "woken" ELSE pc[u]]

\* ------------------------------------------------------------------- Init
\* channel_create(size): an empty open channel, nobody holds or waits.
\* (channel_create_closed: the faulty variant that sets closed to true.)
channel_create_closed(size) ==
    /\ capacity = size
    /\ buffer = << >>
    /\ closed = TRUE
    /\ lock = NoThread
    /\ not_full = {}
    /\ not_empty = {}
    /\ freed = {}

channel_create(size) ==
    /\ capacity = size
    /\ buffer = << >>
    /\ closed = FALSE
    /\ lock = NoThread
    /\ not_full = {}
    /\ not_empty = {}
    /\ freed = {}

InitThreads(T) ==
    /\ pc = [t \in T |-> "idle"]
    /\ op = [t \in T |-> "none"]
    /\ arg = [t \in T |-> NoItem]
    /\ out = [t \in T |-> NoItem]
    /\ ret = [t \in T |-> "NONE"]
    /\ nwaits = [t \in T |-> 0]
    /\ enq = << >>
    /\ deq = << >>
    /\ bufErr = FALSE
    /\ nclose = 0
    /\ deqAtClose = 0
    /\ started = 0
    /\ spurious = 0

\* no channel_select call is part of the scenario
NoSelect ==
    /\ channel_list = << >>
    /\ listed = << >>
    /\ selected_index = 0
    /\ select_ret = "NONE"

Init ==
    /\ \E size \in 1 .. MaxCapacity : channel_create(size)
    /\ InitThreads(Threads)
    /\ producers = {}
    /\ sends = 0
    /\ NoSelect


\* ------------------------------------------------------------ entry steps
\* pthread_mutex_lock at the top of a function: thread t starts call o with
\* data argument d and gets the mutex (a thread that finds the mutex taken
\* simply has not stepped).
\* (EnterNoLock: the faulty variant without the pthread_mutex_lock.)
EnterNoLock(t, o, d) ==
    /\ pc[t] = "idle"
    /\ lock = NoThread
    /\ lock' = lock
    /\ pc' = Moved(t, "cs", {})
    /\ op' = [op EXCEPT ![t] = o]
    /\ arg' = [arg EXCEPT ![t] = d]
    /\ out' = [out EXCEPT ![t] = NoItem]
    /\ ret' = [ret EXCEPT ![t] = "NONE"]
    /\ UNCHANGED nwaits
    /\ started' = started + 1
    /\ UNCHANGED << chan, hist, producers, spurious, freed, selv >>

Enter(t, o, d) ==
    /\ pc[t] = "idle"
    /\ lock = NoThread
    /\ lock' = t
    /\ pc' = Moved(t, "cs", {})
    /\ op' = [op EXCEPT ![t] = o]
    /\ arg' = [arg EXCEPT ![t] = d]
    /\ out' = [out EXCEPT ![t] = NoItem]
    /\ ret' = [ret EXCEPT ![t] = "NONE"]
    /\ UNCHANGED nwaits
    /\ started' = started + 1
    /\ UNCHANGED << chan, hist, producers, spurious, freed, selv >>

\* The general scenario: any thread calls any function, MaxCalls calls in all;
\* a send carries the number of its call as its item, so all items are distinct.
\* Threads are interchangeable: they are numbered in the order of their first
\* call.  Nobody calls anything on a channel that channel_destroy has released.
MayCall(t) ==
    /\ started < MaxCalls
    /\ freed = {}
    /\ \A u \in 1 .. (t - 1) : op[u] # "none"
    /\ UNCHANGED sends

SendCall(t) == MayCall(t) /\ Enter(t, "send", started + 1)
ReceiveCall(t) == MayCall(t) /\ Enter(t, "receive", NoItem)
NBSendCall(t) == MayCall(t) /\ Enter(t, "nb_send", started + 1)
NBReceiveCall(t) == MayCall(t) /\ Enter(t, "nb_receive", NoItem)
CloseCall(t) == MayCall(t) /\ Enter(t, "close", NoItem)

\* pthread_mutex_unlock + return status, on every return path.
\* (ReturnKeepsLockOnClosed: the faulty variant whose CLOSED_ERROR paths return
\* without pthread_mutex_unlock.)
ReturnKeepsLockOnClosed(t, status, W) ==
    /\ lock' = IF status = "CLOSED_ERROR" THEN t ELSE NoThread
    /\ arg' = [arg EXCEPT ![t] = NoItem]
    /\ nwaits' = [nwaits EXCEPT ![t] = 0]
    /\ pc' = Moved(t, "idle", W)
    /\ ret' = [ret EXCEPT ![t] = status]

Return(t, status, W) ==
    /\ lock' = NoThread
    /\ arg' = [arg EXCEPT ![t] = NoItem]
    /\ nwaits' = [nwaits EXCEPT ![t] = 0]
    /\ pc' = Moved(t, "idle", W)
    /\ ret' = [ret EXCEPT ![t] = status]

\* pthread_cond_wait, first half: release the mutex and wait
CondWait(t) ==
    /\ lock' = NoThread
    /\ pc' = Moved(t, "wait", {})
    /\ nwaits' = [nwaits EXCEPT ![t] = IF @ < 2 THEN @ + 1 ELSE 2]
    /\ UNCHANGED << ret, arg >>

\* ------------------------------------------------------------ channel_send
\* the loop test of channel_send; n is the number of waits already made.
\* (SendLoopOffByOne and SendIfTest are faulty variants: a wrong comparison,
\* and an `if` in place of the `while`.)
SendLoopOffByOne(b, cap, n) == buffer_current_size(b) > cap

SendIfTest(b, cap, n) == n = 0 /\ buffer_current_size(b) = cap

SendLoopTest(b, cap, n) == buffer_current_size(b) = cap

\* which way channel_send goes once it holds the mutex: lines 36-44
SendPath(b, cap, c, n) ==
    IF SendLoopTest(b, cap, n) THEN IF c THEN "closed" ELSE "wait"
                               ELSE "add"

\* the waiters woken by line 45 (SendNoSignal: the faulty variant without it)
SendNoSignal(cv) == {{}}

SendSignal(cv) == cond_signal(cv)

channel_send(t) ==
    /\ pc[t] = "cs"
    /\ op[t] = "send"
    /\ IF SendPath(buffer, capacity, closed, nwaits[t]) = "closed"
       THEN /\ Return(t, "CLOSED_ERROR", {})
            /\ UNCHANGED << chan, hist >>
       ELSE IF SendPath(buffer, capacity, closed, nwaits[t]) = "wait"
       THEN /\ CondWait(t)
            /\ not_full' = not_full \cup {t}
            /\ UNCHANGED << capacity, buffer, closed, not_empty, hist >>
       ELSE \E W \in SendSignal(not_empty) :
                 /\ buffer' = buffer_add(buffer, capacity, arg[t])
                 /\ bufErr' = (bufErr \/ ~buffer_add_ok(buffer, capacity))
                 /\ not_empty' = not_empty \ W
                 /\ Return(t, "SUCCESS", W)
                 /\ enq' = Append(enq, arg[t])
                 /\ UNCHANGED << capacity, closed, not_full, deq, nclose, deqAtClose >>
    /\ UNCHANGED << op, out, producers, sends, started, spurious, freed, selv >>

\* --------------------------------------------------------- channel_receive
\* the loop test of channel_receive (RecvIfTest: `if` in place of `while`)
RecvIfTest(b, n) == n = 0 /\ buffer_current_size(b) = 0

RecvLoopTest(b, n) == buffer_current_size(b) = 0

\* which way channel_receive goes once it holds the mutex: lines 61-69
\* (RecvPathClosedFirst: the faulty variant that tests closed first)
RecvPathClosedFirst(b, c, n) ==
    IF c THEN "closed" ELSE IF buffer_current_size(b) = 0 THEN "wait" ELSE "remove"

RecvPath(b, c, n) ==
    IF RecvLoopTest(b, n) THEN IF c THEN "closed" ELSE "wait"
                          ELSE "remove"

\* line 69 (RecvPeek: the faulty variant that reads the oldest item and leaves it)
RecvPeek(b, old) == [buf |-> b, item |-> buffer_remove(b, old).item]

RecvTake(b, old) == buffer_remove(b, old)

\* the waiters woken by line 70 (RecvNoSignal: the faulty variant without it)
RecvNoSignal(cv) == {{}}

RecvSignal(cv) == cond_signal(cv)

channel_receive(t) ==
    /\ pc[t] = "cs"
    /\ op[t] = "receive"
    /\ IF RecvPath(buffer, closed, nwaits[t]) = "closed"
       THEN /\ Return(t, "CLOSED_ERROR", {})
            /\ UNCHANGED << chan, hist, out >>
       ELSE IF RecvPath(buffer, closed, nwaits[t]) = "wait"
       THEN /\ CondWait(t)
            /\ not_empty' = not_empty \cup {t}
            /\ UNCHANGED << capacity, buffer, closed, not_full, hist, out >>
       ELSE \E W \in RecvSignal(not_full) :
                 /\ buffer' = RecvTake(buffer, out[t]).buf
                 /\ out' = [out EXCEPT ![t] = RecvTake(buffer, out[t]).item]
                 /\ bufErr' = (bufErr \/ ~buffer_remove_ok(buffer))
                 /\ not_full' = not_full \ W
                 /\ Return(t, "SUCCESS", W)
                 /\ deq' = Append(deq, out'[t])
                 /\ UNCHANGED << capacity, closed, not_empty, enq, nclose, deqAtClose >>
    /\ UNCHANGED << op, producers, sends, started, spurious, freed, selv >>

\* ------------------------------------------------ pthread_cond_wait, rest
\* a woken waiter re-acquires the mutex and goes back to its loop test
CondWaitRelock(t) ==
    /\ pc[t] = "woken"
    /\ lock = NoThread
    /\ lock' = t
    /\ pc' = Moved(t, "cs", {})
    /\ UNCHANGED << chan, hist, op, arg, out, ret, producers, sends, nwaits, started,
                    spurious, freed, selv >>

\* pthread_cond_wait may return without any signal
SpuriousWakeup(t) ==
    /\ pc[t] = "wait"
    /\ spurious < MaxSpurious
    /\ spurious' = spurious + 1
    /\ not_full' = not_full \ {t}
    /\ not_empty' = not_empty \ {t}
    /\ pc' = Moved(t, "woken", {})
    /\ UNCHANGED << capacity, buffer, closed, lock, hist, op, arg, out, ret,
                    producers, sends, nwaits, started, freed, selv >>

\* ----------------------------------------------- channel_non_blocking_send
\* the status channel_non_blocking_send returns: the closed test (line 86)
\* comes before the fullness test (line 91).  (NBSendStatusNoFullTest: the
\* faulty variant without the fullness test.)
NBSendStatusNoFullTest(b, cap, c) == IF c THEN "CLOSED_ERROR" ELSE "SUCCESS"

NBSendStatus(b, cap, c) ==
    IF c THEN "CLOSED_ERROR"
    ELSE IF buffer_current_size(b) = cap THEN "CHANNEL_FULL"
    ELSE "SUCCESS"

\* whether the call gets to buffer_add and the signal (lines 96-97): only past
\* both early returns
NBSendAdds(b, cap, c) == ~c /\ buffer_current_size(b) # cap

channel_non_blocking_send(t) ==
    /\ pc[t] = "cs"
    /\ op[t] = "nb_send"
    /\ IF NBSendAdds(buffer, capacity, closed)
       THEN \E W \in cond_signal(not_empty) :
                 /\ buffer' = buffer_add(buffer, capacity, arg[t])
                 /\ bufErr' = (bufErr \/ ~buffer_add_ok(buffer, capacity))
                 /\ not_empty' = not_empty \ W
                 /\ Return(t, NBSendStatus(buffer, capacity, closed), W)
                 /\ enq' = Append(enq, arg[t])
                 /\ UNCHANGED << capacity, closed, not_full, deq, nclose, deqAtClose >>
       ELSE /\ Return(t, NBSendStatus(buffer, capacity, closed), {})
            /\ UNCHANGED << chan, hist >>
    /\ UNCHANGED << op, out, producers, sends, started, spurious, freed, selv >>

\* -------------------------------------------- channel_non_blocking_receive
\* the status channel_non_blocking_receive returns: the closed test (line 113)
\* comes before the emptiness test (line 118).  (NBRecvStatusEmptyFirst: the
\* faulty variant with the two tests swapped.)
NBRecvStatusEmptyFirst(b, c) ==
    IF buffer_current_size(b) = 0 THEN "CHANNEL_EMPTY"
    ELSE IF c THEN "CLOSED_ERROR"
    ELSE "SUCCESS"

NBRecvStatus(b, c) ==
    IF c THEN "CLOSED_ERROR"
    ELSE IF buffer_current_size(b) = 0 THEN "CHANNEL_EMPTY"
    ELSE "SUCCESS"

\* whether the call gets to buffer_remove and the signal (lines 123-124): only
\* past both early returns.  (NBRecvRemovesEarly: the faulty variant that
\* removes before it tests closed.)
NBRecvRemovesEarly(b, c) == buffer_current_size(b) # 0

NBRecvRemoves(b, c) == ~c /\ buffer_current_size(b) # 0

channel_non_blocking_receive(t) ==
    /\ pc[t] = "cs"
    /\ op[t] = "nb_receive"
    /\ IF NBRecvRemoves(buffer, closed)
       THEN \E W \in cond_signal(not_full) :
                 /\ buffer' = buffer_remove(buffer, out[t]).buf
                 /\ out' = [out EXCEPT ![t] = buffer_remove(buffer, out[t]).item]
                 /\ bufErr' = (bufErr \/ ~buffer_remove_ok(buffer))
                 /\ not_full' = not_full \ W
                 /\ Return(t, NBRecvStatus(buffer, closed), W)
                 /\ deq' = Append(deq, out'[t])
                 /\ UNCHANGED << capacity, closed, not_empty, enq, nclose, deqAtClose >>
       ELSE /\ Return(t, NBRecvStatus(buffer, closed), {})
            /\ UNCHANGED << chan, hist, out >>
    /\ UNCHANGED << op, producers, sends, started, spurious, freed, selv >>

\* ----------------------------------------------------------- channel_close
\* line 139 (CloseNeverAlready: the faulty variant without the test)
CloseNeverAlready(c) == FALSE

CloseAlready(c) == c

\* lines 147-148 (CloseWakeOne: the faulty variant that signals)
CloseWakeOne(cv) == cond_signal(cv)

CloseWake(cv) == {cond_broadcast(cv)}

channel_close(t) ==
    /\ pc[t] = "cs"
    /\ op[t] = "close"
    /\ IF CloseAlready(closed)
       THEN /\ Return(t, "CLOSED_ERROR", {})
            /\ UNCHANGED << chan, hist >>
       ELSE \E WE \in CloseWake(not_empty), WF \in CloseWake(not_full) :
            /\ closed' = TRUE
            /\ not_empty' = not_empty \ WE
            /\ not_full' = not_full \ WF
            /\ Return(t, "SUCCESS", WE \cup WF)
            /\ nclose' = nclose + 1
            /\ deqAtClose' = Len(deq)
            /\ UNCHANGED << capacity, buffer, enq, deq, bufErr >>
    /\ UNCHANGED << op, out, producers, sends, started, spurious, freed, selv >>

\* --------------------------------------------------------- channel_destroy
\* what lines 166-172 release: the buffer, the mutex, the two condition
\* variables and the channel structure
Resources == {"buffer", "lock", "not_full", "not_empty", "channel"}

\* line 162 (DestroyNeverRefuses: the faulty variant without the test)
DestroyNeverRefuses(c) == FALSE

DestroyRefuses(c) == ~c

\* no thread is inside a call on the channel
Quiescent == lock = NoThread /\ \A t \in DOMAIN pc : pc[t] = "idle"

\* channel_destroy takes no mutex and waits for nothing, so the whole call is
\* one step.  The caller's side of the contract (lines 154-155: close the
\* channel and wait for all threads to finish first) shapes the scenario: a
\* closed channel is destroyed only when it is quiescent; what the released
\* memory would do to threads still inside a call is outside the model.  On an
\* open channel channel_destroy may be called at any time.
channel_destroy(t) ==
    /\ MayCall(t)
    /\ pc[t] = "idle"
    /\ closed => Quiescent
    /\ started' = started + 1
    /\ op' = [op EXCEPT ![t] = "destroy"]
    /\ IF DestroyRefuses(closed)
       THEN /\ ret' = [ret EXCEPT ![t] = "DESTROY_ERROR"]
            /\ UNCHANGED freed
       ELSE /\ ret' = [ret EXCEPT ![t] = "SUCCESS"]
            /\ freed' = Resources
    /\ UNCHANGED << chan, lock, hist, pc, arg, out, producers, nwaits, spurious, selv >>

\* ---------------------------------------------------------- channel_select
\* The select scenario: one thread calls channel_select once, on an array of
\* NumEntries entries; entry i points to a channel of its own, listed[i], of
\* capacity 1, and is a SEND of item i + 1 or a RECV into an empty slot.
\* Other threads make non-blocking sends and receives on the listed channels and
\* close them, before and after the call.  Each of their calls holds its
\* channel's mutex from start to end and is one step here.
Entries == 0 .. (NumEntries - 1)

\* everything but the select scenario's own state
chanv == << chan, lock, hist, pc, op, arg, out, ret, producers, sends, nwaits,
           started, spurious, freed >>

\* select_t: the entry for channel i in direction d
select_t(i, d) ==
    [channel |-> i, dir |-> d, data |-> IF d = "SEND" THEN i + 1 ELSE NoItem]

\* The caller need not initialise *selected_index: any index, or the
\* out-of-range value NumEntries.
InitSelect ==
    /\ channel_create(1)
    /\ InitThreads(Threads)
    /\ producers = {}
    /\ sends = 0
    /\ listed = [i \in Entries |-> [buffer |-> << >>, closed |-> FALSE, capacity |-> 1]]
    /\ \E dirs \in [Entries -> {"SEND", "RECV"}] :
          channel_list = [i \in Entries |-> select_t(i, dirs[i])]
    /\ selected_index \in 0 .. NumEntries
    /\ select_ret = "NONE"

\* another thread's channel_non_blocking_send(listed[i], i + 1)
ListedSend(i) ==
    /\ listed' = [listed EXCEPT ![i].buffer =
                     IF NBSendAdds(@, listed[i].capacity, listed[i].closed)
                     THEN buffer_add(@, listed[i].capacity, i + 1)
                     ELSE @]
    /\ UNCHANGED << channel_list, selected_index, select_ret, chanv >>

\* another thread's channel_non_blocking_receive(listed[i], &item)
ListedReceive(i) ==
    /\ listed' = [listed EXCEPT ![i].buffer =
                     IF NBRecvRemoves(@, listed[i].closed)
                     THEN buffer_remove(@, NoItem).buf
                     ELSE @]
    /\ UNCHANGED << channel_list, selected_index, select_ret, chanv >>

\* another thread's channel_close(listed[i])
ListedClose(i) ==
    /\ listed' = [listed EXCEPT ![i].closed = TRUE]
    /\ UNCHANGED << channel_list, selected_index, select_ret, chanv >>

\* channel_select(channel_list, NumEntries, &selected_index): the body is
\* `return SUCCESS;` and nothing else: it reads no entry, takes no mutex,
\* touches no channel and does not write *selected_index.
channel_select ==
    /\ select_ret = "NONE"
    /\ select_ret' = "SUCCESS"
    /\ UNCHANGED << channel_list, listed, selected_index, chanv >>

NextSelect ==
    \/ \E i \in Entries : ListedSend(i)
    \/ \E i \in Entries : ListedReceive(i)
    \/ \E i \in Entries : ListedClose(i)
    \/ channel_select

SpecSelect == InitSelect /\ [][NextSelect]_vars

\* ------------------------------------------------------------ specifications
Next ==
    \E t \in Threads :
        \/ SendCall(t)
        \/ ReceiveCall(t)
        \/ NBSendCall(t)
        \/ NBReceiveCall(t)
        \/ CloseCall(t)
        \/ channel_send(t)
        \/ channel_receive(t)
        \/ channel_non_blocking_send(t)
        \/ channel_non_blocking_receive(t)
        \/ channel_close(t)
        \/ CondWaitRelock(t)
        \/ SpuriousWakeup(t)

Spec == Init /\ [][Next]_vars

\* The general scenario with channel_destroy among the calls.
NextDestroy ==
    \/ Next
    \/ \E t \in Threads : channel_destroy(t)

SpecDestroy == Init /\ [][NextDestroy]_vars

\* a step of thread t inside a call it has started
InCall(t) ==
    \/ channel_send(t)
    \/ channel_receive(t)
    \/ channel_non_blocking_send(t)
    \/ channel_non_blocking_receive(t)
    \/ channel_close(t)
    \/ CondWaitRelock(t)

\* The close scenario: the threads call the blocking operations and
\* channel_close, MaxCalls calls in all.
NextClose ==
    \E t \in Threads :
        \/ SendCall(t)
        \/ ReceiveCall(t)
        \/ CloseCall(t)
        \/ channel_send(t)
        \/ channel_receive(t)
        \/ channel_close(t)
        \/ CondWaitRelock(t)
        \/ SpuriousWakeup(t)

\* Scheduling: the threads are not all held back for ever while one of them
\* can go on inside its call.  (Every behaviour makes finitely many steps, so
\* this is as much as fairness to each thread.)  Nobody owes a new call, and
\* spurious wakeups are never owed.
FairSpecClose ==
    Init /\ [][NextClose]_vars /\ WF_vars(\E t \in Threads : InCall(t))

\* --------------------------------------------- the producer/consumer scenario
\* Some of the threads are producers and send NumItems distinct items in all
\* with channel_send, the others are consumers and make as many receives in all
\* with channel_receive, on an open channel whose capacity is below NumItems.
InitPC ==
    /\ \E size \in 1 .. MaxCapacity : size < NumItems /\ channel_create(size)
    /\ InitThreads(Threads)
    /\ \E n \in 1 .. (NumThreads - 1) : producers = 1 .. n
    /\ sends = 0
    /\ NoSelect

\* receives started so far
Receives == started - sends

\* any producer may make the next send, of the next item; producers are
\* interchangeable and are numbered in the order of their first send
ProducerCall(t) ==
    /\ t \in producers
    /\ sends < NumItems
    /\ \A u \in producers : u < t => op[u] # "none"
    /\ sends' = sends + 1
    /\ Enter(t, "send", sends + 1)

\* any consumer may make the next receive; consumers are interchangeable and
\* are numbered in the order of their first receive
ConsumerCall(t) ==
    /\ t \notin producers
    /\ Receives < NumItems
    /\ \A u \in Threads \ producers : u < t => op[u] # "none"
    /\ UNCHANGED sends
    /\ Enter(t, "receive", NoItem)

NextPC ==
    \E t \in Threads :
        \/ ProducerCall(t)
        \/ ConsumerCall(t)
        \/ channel_send(t)
        \/ channel_receive(t)
        \/ CondWaitRelock(t)
        \/ SpuriousWakeup(t)

SpecPC == InitPC /\ [][NextPC]_vars

\* a step of thread t in the scenario
StepPC(t) ==
    \/ ProducerCall(t)
    \/ ConsumerCall(t)
    \/ channel_send(t)
    \/ channel_receive(t)
    \/ CondWaitRelock(t)

\* Scheduling: the threads are not all held back for ever while one of them
\* can take a step of its own.  Spurious wakeups are never owed.
FairSpecPC == SpecPC /\ WF_vars(\E t \in Threads : StepPC(t))

\* every send and every receive of the scenario has been made and has returned
AllReturned ==
    /\ \A t \in DOMAIN pc : pc[t] = "idle"
    /\ sends = NumItems
    /\ Receives = NumItems

\* ================================================================ claims
Range(q) == {q[i] : i \in 1 .. Len(q)}

NoDuplicates(q) == \A i, j \in 1 .. Len(q) : q[i] = q[j] => i = j

IsPrefix(p, q) == Len(p) <= Len(q) /\ \A i \in 1 .. Len(p) : p[i] = q[i]

\* thread t returns from its call in this step
Returns(t) == pc[t] # "idle" /\ pc'[t] = "idle"

\* thread t, holding the mutex, runs its function's body in this step
RunsBody(t) == pc[t] = "cs" /\ pc'[t] # "cs"

\* C1: in every reachable state, under any interleaving of the five
\* operations, 0 <= current_size <= capacity, and no buffer_add was made on a
\* full buffer and no buffer_remove on an empty one.
C1_SizeWithinCapacity ==
    /\ 0 <= buffer_current_size(buffer)
    /\ buffer_current_size(buffer) <= capacity
    /\ ~bufErr

\* C1 witness: the buffer is full, a sender is blocked on not_full, and an
\* item has been removed before.
C1_Witness ==
    /\ buffer_current_size(buffer) = capacity
    /\ not_full # {}
    /\ deq # << >>

\* C2 (as claimed): once the channel is closed, the item count never increases
\* and every send that returns (blocking or not) returns CLOSED_ERROR.
C2_NoSendAfterClose ==
    [][closed =>
         /\ buffer_current_size(buffer') <= buffer_current_size(buffer)
         /\ \A t \in DOMAIN pc :
               (op[t] \in {"send", "nb_send"} /\ Returns(t))
                   => ret'[t] = "CLOSED_ERROR"]_vars

\* C3: in the producer/consumer scenario no item is delivered twice, no item
\* is delivered that was not sent, every item sent is either delivered or still
\* buffered, and once every call has returned every item has been delivered.
C3_ExactlyOnce ==
    /\ NoDuplicates(deq)
    /\ Range(deq) \subseteq Range(enq)
    /\ NoDuplicates(enq)
    /\ Range(enq) = Range(deq) \cup Range(buffer)
    /\ Len(enq) = Len(deq) + Len(buffer)
    /\ AllReturned => (Len(deq) = NumItems /\ Range(deq) = 1 .. NumItems)

\* C3 witness: every send and receive has returned, all items are delivered,
\* on a channel of capacity 1 with two producers at work.
C3_Witness ==
    /\ AllReturned
    /\ Len(deq) = NumItems
    /\ capacity = 1
    /\ \E t, u \in producers : t # u /\ op[t] = "send" /\ op[u] = "send"

\* C4: under fair scheduling every send and receive of the producer/consumer
\* scenario is eventually made and returns, and every return is SUCCESS; so no
\* sender stays on not_full and no receiver on not_empty forever.
C4_AllReturnSuccess ==
    /\ <>[]AllReturned
    /\ [](\A t \in Threads : ret[t] \in {"NONE", "SUCCESS"})

\* C4 witness: every call has returned SUCCESS although a waiter was woken
\* spuriously on the way, with two consumers at work.
C4_Witness ==
    /\ AllReturned
    /\ spurious > 0
    /\ \A t \in Threads : ret[t] = "SUCCESS"
    /\ \E t, u \in Threads \ producers : t # u

\* C5: the items successful receives return, in the order they return them,
\* are the items successful sends enqueued, in the order they enqueued them.
C5_Fifo == IsPrefix(deq, enq)

\* C5 witness: two items were enqueued, by a blocking and a non-blocking send
\* of different threads, and both have been received.
C5_Witness ==
    /\ Len(enq) >= 2
    /\ Len(deq) >= 2
    /\ \E t, u \in DOMAIN pc : t # u /\ op[t] = "send" /\ op[u] = "nb_send"

\* C6: a channel_send never returns while the buffer is full and the channel
\* open (it returns from a full buffer only with CLOSED_ERROR, after close),
\* and it returns SUCCESS only when the buffer had room.
C6_SendBlocksWhileFull ==
    [][\A t \in DOMAIN pc :
          (op[t] = "send" /\ Returns(t)) =>
              /\ buffer_current_size(buffer) = capacity
                    => (closed /\ ret'[t] = "CLOSED_ERROR" /\ buffer' = buffer)
              /\ ret'[t] = "SUCCESS"
                    => (buffer_current_size(buffer) < capacity
                        /\ buffer' = Append(buffer, arg[t]))]_vars

\* C6 witness: the buffer holds capacity items, the channel is open, and a
\* sender that was woken once is waiting on not_full again.
C6_Witness ==
    \E t \in DOMAIN pc :
        /\ op[t] = "send"
        /\ pc[t] = "wait"
        /\ nwaits[t] = 2
        /\ t \in not_full
        /\ buffer_current_size(buffer) = capacity
        /\ ~closed

\* C7: a channel_receive never returns while the buffer is empty and the
\* channel open; it returns SUCCESS only with the oldest item, dequeued, in its
\* output slot; from an empty closed channel it returns CLOSED_ERROR and
\* leaves the output slot unwritten.
C7_ReceiveBlocksWhileEmpty ==
    [][\A t \in DOMAIN pc :
          (op[t] = "receive" /\ Returns(t)) =>
              /\ buffer_current_size(buffer) = 0
                    => (closed /\ ret'[t] = "CLOSED_ERROR" /\ out'[t] = out[t]
                        /\ buffer' = buffer)
              /\ ret'[t] = "SUCCESS"
                    => (buffer_current_size(buffer) > 0
                        /\ out'[t] = Head(buffer)
                        /\ buffer' = Tail(buffer))]_vars

\* C7 witness: a receiver that had blocked on the empty channel has returned
\* CLOSED_ERROR after the close, its output slot unwritten, while another
\* receive had returned an item.
C7_Witness ==
    /\ closed
    /\ deq # << >>
    /\ spurious > 0
    /\ \E t \in DOMAIN pc :
          /\ op[t] = "receive"
          /\ pc[t] = "idle"
          /\ ret[t] = "CLOSED_ERROR"
          /\ out[t] = NoItem

\* C8: once the channel is closed nobody waits on not_full or not_empty any
\* more, and under fair scheduling every thread that is inside a call on the
\* closed channel (the ones the close found blocked included) returns: a state
\* follows in which no thread is inside a call.
C8_CloseReleasesAll ==
    /\ [](closed => (not_full = {} /\ not_empty = {}))
    /\ closed ~> (\A t \in Threads : pc[t] = "idle")

\* C8 witness: the close has just woken two blocked threads at once.
C8_Witness ==
    /\ closed
    /\ spurious = 0
    /\ \E t, u \in Threads : t # u /\ pc[t] = "woken" /\ pc[u] = "woken"

C10_CloseOnce ==
    [][/\ nclose' <= 1
       /\ \A t \in DOMAIN pc :
             (op[t] = "close" /\ RunsBody(t)) =>
                 /\ pc'[t] = "idle"
                 /\ buffer' = buffer
                 /\ lock' = NoThread
                 /\ IF closed
                    THEN /\ ret'[t] = "CLOSED_ERROR"
                         /\ UNCHANGED << chan, hist >>
                    ELSE /\ ret'[t] = "SUCCESS"
                         /\ closed'
                         /\ nclose' = 1]_vars

\* C10 witness: two threads have closed the channel, which holds an item; one
\* got SUCCESS and the other CLOSED_ERROR.
C10_Witness ==
    /\ buffer # << >>
    /\ \E t, u \in DOMAIN pc :
          /\ t # u
          /\ op[t] = "close" /\ pc[t] = "idle" /\ ret[t] = "SUCCESS"
          /\ op[u] = "close" /\ pc[u] = "idle" /\ ret[u] = "CLOSED_ERROR"

\* C11: the non-blocking calls never wait on a condition variable: a thread in
\* one of them is never on not_full or not_empty, and once it holds the mutex
\* its next step is its return.  On an open channel, non-blocking send returns
\* CHANNEL_FULL from a full buffer and non-blocking receive CHANNEL_EMPTY from
\* an empty one, buffer and closed flag unchanged; otherwise they enqueue the
\* item (dequeue the oldest item) and return SUCCESS.
C11_NonBlockingNeverWaits ==
    /\ [](\A t \in DOMAIN pc :
             op[t] \in {"nb_send", "nb_receive"} =>
                 /\ pc[t] \in {"idle", "cs"}
                 /\ t \notin (not_full \cup not_empty))
    /\ [][\A t \in DOMAIN pc :
             (op[t] \in {"nb_send", "nb_receive"} /\ RunsBody(t)) =>
                 /\ pc'[t] = "idle"
                 /\ (~closed /\ op[t] = "nb_send") =>
                       IF buffer_current_size(buffer) = capacity
                       THEN /\ ret'[t] = "CHANNEL_FULL"
                            /\ buffer' = buffer
                            /\ closed' = closed
                       ELSE /\ ret'[t] = "SUCCESS"
                            /\ buffer' = Append(buffer, arg[t])
                            /\ closed' = closed
                 /\ (~closed /\ op[t] = "nb_receive") =>
                       IF buffer_current_size(buffer) = 0
                       THEN /\ ret'[t] = "CHANNEL_EMPTY"
                            /\ buffer' = buffer
                            /\ out'[t] = out[t]
                            /\ closed' = closed
                       ELSE /\ ret'[t] = "SUCCESS"
                            /\ out'[t] = Head(buffer)
                            /\ buffer' = Tail(buffer)
                            /\ closed' = closed]_vars

\* C11 witness: on the open channel one non-blocking receive has returned
\* CHANNEL_EMPTY, one non-blocking send CHANNEL_FULL, and another non-blocking
\* receive has returned an item.
C11_Witness ==
    /\ ~closed
    /\ \E t, u, v \in DOMAIN pc :
          /\ t # v
          /\ op[t] = "nb_receive" /\ pc[t] = "idle" /\ ret[t] = "CHANNEL_EMPTY"
          /\ op[u] = "nb_send" /\ pc[u] = "idle" /\ ret[u] = "CHANNEL_FULL"
          /\ op[v] = "nb_receive" /\ pc[v] = "idle" /\ ret[v] = "SUCCESS"
          /\ out[v] # NoItem

\* C12: on a closed channel a non-blocking send and a non-blocking receive
\* return CLOSED_ERROR whether the buffer is full, empty or in between, and
\* leave the buffer and the output slot as they were.
C12_ClosedBeforeCapacity ==
    [][\A t \in DOMAIN pc :
          (op[t] \in {"nb_send", "nb_receive"} /\ closed /\ RunsBody(t)) =>
              /\ pc'[t] = "idle"
              /\ ret'[t] = "CLOSED_ERROR"
              /\ buffer' = buffer
              /\ out'[t] = out[t]]_vars

\* C12 witness: the channel is closed and full; a non-blocking send and a
\* non-blocking receive have both returned CLOSED_ERROR from it.
C12_Witness ==
    /\ closed
    /\ buffer_current_size(buffer) = capacity
    /\ \E t, u \in DOMAIN pc :
          /\ op[t] = "nb_send" /\ pc[t] = "idle" /\ ret[t] = "CLOSED_ERROR"
          /\ op[u] = "nb_receive" /\ pc[u] = "idle" /\ ret[u] = "CLOSED_ERROR"
          /\ out[u] = NoItem

\* thread t makes a channel_destroy call in this step
Destroys(t) ==
    /\ pc[t] = "idle"
    /\ pc' = pc
    /\ started' = started + 1
    /\ op'[t] = "destroy"
    /\ \A u \in DOMAIN pc \ {t} : op'[u] = op[u] /\ ret'[u] = ret[u]

\* C16: channel_destroy on an open channel returns DESTROY_ERROR and changes
\* nothing: buffer, closed flag, mutex and condition variables are as before
\* and nothing is released, so as long as the channel is open it is whole.
\* channel_destroy on a closed channel that no thread is operating on returns
\* SUCCESS and releases the buffer, the mutex, both condition variables and the
\* channel.
C16_DestroyOnlyClosed ==
    /\ [](freed # {} => (closed /\ freed = Resources))
    /\ [][\A t \in DOMAIN pc :
             Destroys(t) =>
                 IF ~closed
                 THEN /\ ret'[t] = "DESTROY_ERROR"
                      /\ UNCHANGED << chan, lock, hist, freed >>
                 ELSE /\ Quiescent
                      /\ ret'[t] = "SUCCESS"
                      /\ freed = {}
                      /\ freed' = Resources
                      /\ UNCHANGED << chan, lock, hist >>]_vars

\* C16 witness: a channel_destroy on the open channel was refused, a send made
\* it through, and after the close another channel_destroy has released
\* everything.
C16_Witness ==
    /\ freed = Resources
    /\ enq # << >>
    /\ \E t, u \in DOMAIN pc :
          /\ t # u
          /\ op[t] = "destroy" /\ ret[t] = "DESTROY_ERROR"
          /\ op[u] = "destroy" /\ ret[u] = "SUCCESS"

\* C17: a call of send, receive, non-blocking send, non-blocking receive or
\* close that returns a status other than SUCCESS returns in the step in which
\* it last holds the mutex, and that step leaves the buffered items as they
\* were; a channel_destroy that returns DESTROY_ERROR leaves them as they were
\* and releases nothing.
C17_FailureLeavesBuffer ==
    [][\A t \in DOMAIN pc :
          /\ (Returns(t) /\ ret'[t] # "SUCCESS") =>
                 /\ pc[t] = "cs"
                 /\ lock = t
                 /\ ret'[t] \in {"CLOSED_ERROR", "CHANNEL_FULL", "CHANNEL_EMPTY"}
                 /\ buffer' = buffer
          /\ (Destroys(t) /\ ret'[t] # "SUCCESS") =>
                 /\ ret'[t] = "DESTROY_ERROR"
                 /\ buffer' = buffer
                 /\ freed' = {}]_vars

\* C17 witness: the buffer holds an item; a channel_destroy was turned away
\* with DESTROY_ERROR and, after the close, a non-blocking receive with
\* CLOSED_ERROR.
C17_Witness ==
    /\ buffer # << >>
    /\ closed
    /\ \E t, u \in DOMAIN pc :
          /\ t # u
          /\ op[t] = "destroy" /\ ret[t] = "DESTROY_ERROR"
          /\ op[u] = "nb_receive" /\ pc[u] = "idle" /\ ret[u] = "CLOSED_ERROR"

\* C18: a thread that returns from send, receive, non-blocking send,
\* non-blocking receive or close, with whatever status, gives the mutex up in
\* that step: the mutex is free right after the return, and no thread outside
\* a call holds it.
C18_ReturnReleasesLock ==
    /\ [](\A t \in DOMAIN pc : pc[t] = "idle" => lock # t)
    /\ [][\A t \in DOMAIN pc :
             Returns(t) => (lock = t /\ lock' = NoThread)]_vars

\* C18 witness: a blocking send has returned CLOSED_ERROR from the full closed
\* channel, and another thread has taken the mutex since.
C18_Witness ==
    \E t, v \in DOMAIN pc :
        /\ op[t] = "send" /\ pc[t] = "idle" /\ ret[t] = "CLOSED_ERROR"
        /\ v # t
        /\ lock = v
        /\ pc[v] = "cs"

\* thread t, holding the mutex, acts in this step
HolderActs(t) == lock = t /\ pc[t] = "cs" /\ pc'[t] # "cs"

\* C19 (as claimed): every step that changes the buffer or the closed flag, or
\* in which channel_destroy releases the buffer, is made by a thread that
\* holds the mutex, and a thread that has just entered pthread_cond_wait does
\* not hold it.
C19_AllMutationsUnderLock ==
    [][/\ (buffer' # buffer \/ closed' # closed \/ "buffer" \in freed' \ freed)
             => \E t \in DOMAIN pc : HolderActs(t)
       /\ \A t \in DOMAIN pc : pc'[t] = "wait" => lock' # t]_vars

\* C19 (amended): every step that changes the buffer or the closed flag
\* (buffer_add, buffer_remove, setting closed) is made by the one thread that
\* holds the mutex; the threads inside a critical section are exactly the
\* holder, so no two are in one at once; a thread suspended in
\* pthread_cond_wait does not hold the mutex.  channel_destroy releases the
\* buffer without holding the mutex.
C19_MutationsUnderLock ==
    /\ [](\A t \in DOMAIN pc :
             /\ pc[t] = "cs" <=> lock = t
             /\ pc[t] \in {"wait", "woken"} => lock # t)
    /\ [][/\ (buffer' # buffer \/ closed' # closed)
                => \E t \in DOMAIN pc : HolderActs(t)
          /\ \A t \in DOMAIN pc :
                (Destroys(t) /\ "buffer" \in freed' \ freed)
                    => (lock # t /\ lock' # t)]_vars

\* C19 witness: the buffer holds an item put there under the mutex, a sender
\* is suspended in pthread_cond_wait, and another thread holds the mutex.
C19_Witness ==
    /\ buffer # << >>
    /\ \E t, u \in DOMAIN pc :
          /\ pc[t] = "wait" /\ t \in not_full
          /\ lock = u /\ pc[u] = "cs"

\* C20: the channel is created open; the closed flag goes from false to true
\* only in the step in which a channel_close returns SUCCESS, and no step of
\* any operation takes it from true back to false.
C20_ClosedMonotonic ==
    /\ ~closed
    /\ [][/\ closed => closed'
          /\ (~closed /\ closed') =>
                \E t \in DOMAIN pc :
                    /\ op[t] = "close"
                    /\ HolderActs(t)
                    /\ ret'[t] = "SUCCESS"]_vars

\* C20 witness: the channel is closed, and since the close a receive has
\* drained an item and a second close has been refused.
C20_Witness ==
    /\ closed
    /\ Len(deq) > deqAtClose
    /\ \E t \in DOMAIN pc : op[t] = "close" /\ pc[t] = "idle" /\ ret[t] = "CLOSED_ERROR"

\* ------------------------------------------------------ channel_select claims
\* the channel entry i points to
EntryChannel(i) == listed[channel_list[i].channel]

\* entry i's non-blocking operation would succeed
EntryReady(i) ==
    /\ ~EntryChannel(i).closed
    /\ IF channel_list[i].dir = "SEND"
       THEN buffer_current_size(EntryChannel(i).buffer) < EntryChannel(i).capacity
       ELSE buffer_current_size(EntryChannel(i).buffer) > 0

EntryClosed(i) == EntryChannel(i).closed

\* a scan in list order stops at entry k: the first that is ready or closed
ScanStopsAt(k) ==
    /\ EntryReady(k) \/ EntryClosed(k)
    /\ \A j \in Entries : j < k => ~(EntryReady(j) \/ EntryClosed(j))

\* the channel_select call returns in this step
SelectReturns == select_ret = "NONE" /\ select_ret' # "NONE"

\* exactly entry k's operation is performed in this step
PerformsEntry(k) ==
    /\ listed' = [listed EXCEPT ![channel_list[k].channel].buffer =
                     IF channel_list[k].dir = "SEND"
                     THEN Append(@, channel_list[k].data)
                     ELSE Tail(@)]
    /\ channel_list' = [channel_list EXCEPT ![k].data =
                           IF channel_list[k].dir = "RECV"
                           THEN Head(EntryChannel(k).buffer)
                           ELSE @]

\* C13 (as claimed): when channel_select returns and the first entry in list
\* order that is ready or closed is a ready one, it has performed exactly that
\* entry's send or receive, set selected_index to its index and returned
\* SUCCESS.
C13_SelectFirstReady ==
    [][\A k \in Entries :
          (SelectReturns /\ ScanStopsAt(k) /\ EntryReady(k)) =>
              /\ select_ret' = "SUCCESS"
              /\ selected_index' = k
              /\ PerformsEntry(k)]_vars

\* C14 (as claimed): a channel_select whose entries are all receives on open
\* channels returns only when one of the channels holds an item (it was sent
\* to); it then returns SUCCESS with selected_index at that channel's entry,
\* having received the item.
C14_SelectBlocksUntilSend ==
    [][(SelectReturns
          /\ \A i \in Entries : channel_list[i].dir = "RECV" /\ ~EntryClosed(i)) =>
              \E k \in Entries :
                  /\ EntryChannel(k).buffer # << >>
                  /\ select_ret' = "SUCCESS"
                  /\ selected_index' = k
                  /\ PerformsEntry(k)]_vars

\* C15 (as claimed): when channel_select returns and the first entry in list
\* order that is ready or closed is a closed one, it has returned CLOSED_ERROR
\* with selected_index at that entry and has left every later entry and its
\* channel alone.
C15_SelectPropagatesClosed ==
    [][\A k \in Entries :
          (SelectReturns /\ ScanStopsAt(k) /\ EntryClosed(k)) =>
              /\ select_ret' = "CLOSED_ERROR"
              /\ selected_index' = k
              /\ \A j \in Entries :
                    j > k => /\ channel_list'[j] = channel_list[j]
                             /\ listed'[channel_list[j].channel] = EntryChannel(j)]_vars

====
